---- MODULE Spec2Model ----
(***************************************************************************)
(* Model of the tank-design repository: the two documentation servers      *)
(* (main.py, documentation_server.py), the STEP export fallback chain of   *)
(* final_step_generator.py, the PDF generator simple_pdf_generator.py and  *)
(* the dimensioning part of ProfessionalTankDesigner.                      *)
(*                                                                         *)
(* Every program of the repository is a separate script; `prog` says which *)
(* one a behaviour runs.  Text is modelled as sequences of tokens: a URL   *)
(* is a sequence over "/", "?" and name tokens, a file name is the         *)
(* sequence of name tokens between two "/".  Lengths are integers in       *)
(* micrometres (1870.0 mm = 1870000), capacities are integers in litres.   *)
(***************************************************************************)
EXTENDS Integers, Sequences, FiniteSets, TLC

VARIABLES
    prog,        \* the script this behaviour runs
    \* ---- documentation servers (main.py, documentation_server.py)
    fs,          \* working directory: file name -> kind/content
    pc,          \* position of the (single-threaded) request handler
    path,        \* self.path of the request being handled
    doc_name,    \* the filename argument of serve_document
    resp,        \* responses sent for the current request, in order
    opened,      \* file names opened for the current request, in order
    platform,    \* os.name of the host the script runs on
    last_response, \* history: per document, the answer of its last finished request
    delegated,   \* paths handed to SimpleHTTPRequestHandler.do_GET
    \* ---- STEP generators
    gen_pc,      \* position of the generator script
    geom,        \* the tank parameters the generator built its geometry from
    export_log,  \* export methods tried by export_step_file, with outcomes
    export_ret,  \* what export_step_file returned
    main_ret,    \* what the generator's main() returned
    exit_status, \* the exit status of the generator script, -1 while it runs
    tdg_run,     \* tank_design_generator's __main__: successes and banner
    \* ---- simple_pdf_generator.py
    pdf_pc,      \* position of main()
    pdf_docs,    \* one record per document main() has dealt with
    pdf_last,    \* the last call of markdown_to_pdf
    successful,  \* main()'s counter of converted documents
    pdf_ret,     \* what main() returned
    \* ---- professional_tank_design_system.py
    designer,    \* the ProfessionalTankDesigner object
    report,      \* figures of generate_comprehensive_report
    build123d_available, \* BUILD123D_AVAILABLE, set when the module is imported
    ptd_run      \* main() of professional_tank_design_system: position, files

server_vars == <<fs, pc, path, doc_name, resp, opened, delegated>>
gen_vars == <<gen_pc, geom, export_log, export_ret, main_ret, exit_status, tdg_run>>
script_vars == <<main_ret, exit_status, tdg_run>>
pdf_vars == <<pdf_pc, pdf_docs, pdf_last, successful, pdf_ret>>
designer_vars == <<designer, report, build123d_available, ptd_run>>
ptd_vars == <<build123d_available, ptd_run>>
vars == <<prog, platform, last_response, server_vars, gen_vars, pdf_vars, designer_vars>>

----------------------------------------------------------------------------
(* Bounds *)

\* longest request path, in segments
MaxSegs == 3

----------------------------------------------------------------------------
(* Documentation servers *)

Servers == {"main", "documentation_server"}


\* file names that occur as path segments; <<>> is the empty segment
NameA == <<"a", ".md">>
NameB == <<"b", ".txt">>
NameIndex == <<"index.html">>
NameDocument == <<"document">>
\* '..\b.txt': one segment of a URL, whatever the host
NameOutside == <<"..", "\\", "b", ".txt">>
SegNames == {<<>>, NameDocument, NameIndex, NameA, NameB, NameOutside}

\* files whose state other processes change while the server runs
MutableFiles == {NameA, NameB}
\* the names the handler can pass to os.path.exists and open
Files == MutableFiles \cup {NameIndex, NameOutside}

\* "absent", a directory, bytes that are not UTF-8, or UTF-8 text t1 / t2
TextContents == {"t1", "t2"}
FileKinds == {"absent", "dir", "bin"} \cup TextContents

RECURSIVE Flatten(_)
\* "/" + seg for every segment: the path text of a request
Flatten(segs) ==
    IF segs = <<>> THEN <<>>
    ELSE <<"/">> \o Head(segs) \o Flatten(Tail(segs))

SegLists == UNION {[1..n -> SegNames] : n \in 1..MaxSegs}
Queries == {<<>>, <<"?", "q">>}
\* the request targets a client sends
Requests == {Flatten(s) \o q : s \in SegLists, q \in Queries}

\* index of the first occurrence of a token of `stops` at or after i, else Len+1
RECURSIVE FindFrom(_, _, _)
FindFrom(s, i, stops) ==
    IF i > Len(s) THEN Len(s) + 1
    ELSE IF s[i] \in stops THEN i
    ELSE FindFrom(s, i + 1, stops)

\* urlparse(url).path: a leading "//" starts a network location that runs to
\* the next "/" or "?"; the path is what follows, up to the query
UrlParsePath(url) ==
    LET start == IF Len(url) >= 2 /\ url[1] = "/" /\ url[2] = "/"
                 THEN FindFrom(url, 3, {"/", "?"})
                 ELSE 1
        stop == FindFrom(url, start, {"?"})
    IN  SubSeq(url, start, stop - 1)

\* path.startswith('/document/')
StartsWithDocument(p) ==
    /\ Len(p) >= 3
    /\ p[1] = "/"
    /\ p[2] = "document"
    /\ p[3] = "/"

\* index of the last "/" of p at or before i, 0 when there is none
RECURSIVE LastSlash(_, _)
LastSlash(p, i) ==
    IF i = 0 THEN 0
    ELSE IF p[i] = "/" THEN i
    ELSE LastSlash(p, i - 1)

\* path.split('/')[-1]
LastSegment(p) == SubSeq(p, LastSlash(p, Len(p)) + 1, Len(p))

\* Route with the '/index.html' comparison dropped
RouteOnlyRoot(p) ==
    IF p = <<"/">> THEN "dashboard"
    ELSE IF StartsWithDocument(p) THEN "document"
    ELSE "static"

\* the branch do_GET takes for a parsed path
Route(p) ==
    IF p = <<"/">> \/ p = <<"/", "index.html">> THEN "dashboard"
    ELSE IF StartsWithDocument(p) THEN "document"
    ELSE "static"

Platforms == {"posix", "nt"}

\* the characters that separate the components of a file name
Separators(plat) == IF plat = "nt" THEN {"/", "\\"} ELSE {"/"}

\* where os.path.exists(name) and open(name) look a relative name up: the
\* working directory itself for a name of one component
ResolvedDirectory(plat, name) ==
    LET first == FindFrom(name, 1, Separators(plat))
    IN  IF first > Len(name) THEN "cwd"
        ELSE IF SubSeq(name, 1, first - 1) = <<"..">> THEN "parent"
        ELSE "subdirectory"

\* b.txt of the parent directory, a file no other process touches
ParentFile == "t2"

\* Exists with the empty name taken for the directory itself
ExistsEmptyIsDirectory(f, name) ==
    name = <<>> \/ (name \in DOMAIN f /\ f[name] # "absent")

\* os.path.exists(filename) in the working directory
Exists(f, name) == name \in DOMAIN f /\ f[name] # "absent"

\* filename.endswith('.md')
EndsWithMd(name) == Len(name) > 0 /\ name[Len(name)] = ".md"

\* markdown.Markdown(extensions=...).convert(content)
MarkdownExtensions(p) ==
    IF p = "main" THEN <<"extra", "tables", "toc">> ELSE <<"extra", "tables">>
MarkdownConvert(p, content) == <<"markdown", MarkdownExtensions(p), content>>

\* f"<pre>{content}</pre>"
PreWrap(content) == <<"<pre>", content, "</pre>">>

\* filename.replace('_', ' ').replace('.md', '')
RECURSIVE Title(_)
Title(name) ==
    IF name = <<>> THEN <<>>
    ELSE IF Head(name) = ".md" THEN Title(Tail(name))
    ELSE IF Head(name) = "_" THEN <<" ">> \o Title(Tail(name))
    ELSE <<Head(name)>> \o Title(Tail(name))

HtmlType == "text/html; charset=utf-8"

\* send_response(200) + headers + body; main.py adds the CORS header
Response200(p, body) ==
    [status |-> 200, ctype |-> HtmlType, cors |-> (p = "main"), body |-> body]

\* send_error(code, ...)
ErrorResponse(code) ==
    [status |-> code, ctype |-> "error", cors |-> FALSE, body |-> <<"error">>]

\* serve_main_dashboard
DashboardResponse(p) == Response200(p, <<"dashboard", p>>)

\* DocumentHtml without the markdown branch
DocumentHtmlAlwaysPre(p, name, content) == PreWrap(content)

\* the html_content serve_document embeds for a file's text
DocumentHtml(p, name, content) ==
    IF EndsWithMd(name) THEN MarkdownConvert(p, content) ELSE PreWrap(content)

\* ReadResponse with the except clause answering 'not found'
ReadResponseNotFound(p, f, name) ==
    IF name \in DOMAIN f /\ f[name] \in TextContents
    THEN Response200(p, <<"page", Title(name), DocumentHtml(p, name, f[name])>>)
    ELSE ErrorResponse(404)

\* the try block of serve_document: open, read, convert, respond
ReadResponse(p, f, name) ==
    IF name \in DOMAIN f /\ f[name] \in TextContents
    THEN Response200(p, <<"page", Title(name), DocumentHtml(p, name, f[name])>>)
    ELSE ErrorResponse(500)

\* do_GET with a handler that remembers which documents it found missing
do_GET_negative_cache(self_path) ==
    /\ prog \in Servers
    /\ pc = "idle"
    /\ path' = self_path
    /\ opened' = <<>>
    /\ LET p == UrlParsePath(self_path)
           r == Route(p)
       IN  \/ /\ r = "dashboard"
              /\ resp' = <<DashboardResponse(prog)>>
              /\ doc_name' = <<>>
              /\ delegated' = <<>>
              /\ pc' = "done"
           \/ /\ r = "document"
              /\ doc_name' = LastSegment(p)
              /\ delegated' = <<>>
              /\ IF /\ Exists(fs, LastSegment(p))
                    /\ ~(/\ LastSegment(p) \in DOMAIN last_response
                         /\ last_response[LastSegment(p)] = "404")
                 THEN resp' = <<>> /\ pc' = "open"
                 ELSE resp' = <<ErrorResponse(404)>> /\ pc' = "done"
           \/ /\ r = "static"
              /\ resp' = <<>>
              /\ doc_name' = <<>>
              /\ delegated' = <<self_path>>
              /\ pc' = "done"
    /\ UNCHANGED <<prog, platform, last_response, fs, gen_vars, pdf_vars, designer_vars>>

\* do_GET up to the first system call whose result other processes can change:
\* the dashboard and the static branch complete; serve_document checks
\* os.path.exists and either answers 404 or goes on to open the file
do_GET(self_path) ==
    /\ prog \in Servers
    /\ pc = "idle"
    /\ path' = self_path
    /\ opened' = <<>>
    /\ LET p == UrlParsePath(self_path)
           r == Route(p)
       IN  \/ /\ r = "dashboard"
              /\ resp' = <<DashboardResponse(prog)>>
              /\ doc_name' = <<>>
              /\ delegated' = <<>>
              /\ pc' = "done"
           \/ /\ r = "document"
              /\ doc_name' = LastSegment(p)
              /\ delegated' = <<>>
              /\ IF Exists(fs, LastSegment(p))
                 THEN resp' = <<>> /\ pc' = "open"
                 ELSE resp' = <<ErrorResponse(404)>> /\ pc' = "done"
           \/ /\ r = "static"
              /\ resp' = <<>>
              /\ doc_name' = <<>>
              /\ delegated' = <<self_path>>
              /\ pc' = "done"
    /\ UNCHANGED <<prog, platform, last_response, fs, gen_vars, pdf_vars, designer_vars>>

\* serve_document after the existence check
serve_document_read ==
    /\ prog \in Servers
    /\ pc = "open"
    /\ opened' = Append(opened, doc_name)
    /\ resp' = Append(resp, ReadResponse(prog, fs, doc_name))
    /\ pc' = "done"
    /\ UNCHANGED <<prog, platform, last_response, fs, path, doc_name, delegated>>
    /\ UNCHANGED <<gen_vars, pdf_vars, designer_vars>>

\* the handler returns and the server waits for the next request
finish_request ==
    /\ prog \in Servers
    /\ pc = "done"
    /\ pc' = "idle"
    /\ path' = <<>>
    /\ doc_name' = <<>>
    /\ resp' = <<>>
    /\ opened' = <<>>
    /\ delegated' = <<>>
    /\ UNCHANGED <<prog, platform, last_response, fs, gen_vars, pdf_vars, designer_vars>>

\* what was sent for a document: the text a 200 page embeds, else the status
Answer(r) ==
    IF r.status = 200
    THEN IF r.body[3][1] = "markdown" THEN r.body[3][3] ELSE r.body[3][2]
    ELSE IF r.status = 404 THEN "404" ELSE "500"

NoResponses == [n \in MutableFiles |-> "none"]

\* finish_request, the answer just sent being noted in last_response
finish_request_recorded ==
    /\ prog \in Servers
    /\ pc = "done"
    /\ pc' = "idle"
    /\ path' = <<>>
    /\ doc_name' = <<>>
    /\ resp' = <<>>
    /\ opened' = <<>>
    /\ delegated' = <<>>
    /\ last_response' = IF doc_name \in MutableFiles /\ Len(resp) = 1
                        THEN [last_response EXCEPT ![doc_name] = Answer(resp[1])]
                        ELSE last_response
    /\ UNCHANGED <<prog, platform, fs, gen_vars, pdf_vars, designer_vars>>

\* another process creates, rewrites or removes a file of the directory
change_file(name, kind) ==
    /\ prog \in Servers
    /\ fs[name] # kind
    /\ fs' = [fs EXCEPT ![name] = kind]
    /\ UNCHANGED <<prog, platform, last_response, pc, path, doc_name, resp, opened, delegated>>
    /\ UNCHANGED <<gen_vars, pdf_vars, designer_vars>>

\* what the name '..\b.txt' denotes: the parent directory's b.txt where '\'
\* separates components, an entry of the working directory (absent) elsewhere
OutsideKind(plat) ==
    IF ResolvedDirectory(plat, NameOutside) = "parent" THEN ParentFile ELSE "absent"

ServerInit ==
    /\ last_response = NoResponses
    /\ IF prog \in Servers THEN platform \in Platforms ELSE platform = "posix"
    /\ IF prog \in Servers
       THEN fs \in {f \in [Files -> FileKinds] :
                        /\ f[NameIndex] = "t1"
                        /\ f[NameOutside] = OutsideKind(platform)}
       ELSE fs = [n \in Files |-> IF n = NameIndex THEN "t1" ELSE "absent"]
    /\ pc = "idle"
    /\ path = <<>>
    /\ doc_name = <<>>
    /\ resp = <<>>
    /\ opened = <<>>
    /\ delegated = <<>>

----------------------------------------------------------------------------

(* STEP generators *)

Generators == {"tank_design_generator", "simple_step_generator",
               "working_step_generator", "final_step_generator"}

\* module-level design parameters of tank_design_generator.py, in micrometres
tdg_tank_diameter == 1870000
tdg_tank_length == 3680000
tdg_shell_thickness == 6000
tdg_knuckle_radius == 60000
tdg_saddle_position_from_center == 1070000

TdgParameters ==
    [made |-> TRUE,
     tank_diameter |-> tdg_tank_diameter,
     tank_length |-> tdg_tank_length,
     shell_thickness |-> tdg_shell_thickness,
     knuckle_radius |-> tdg_knuckle_radius,
     crown_radius |-> tdg_tank_diameter,
     saddle_positions |-> <<tdg_saddle_position_from_center,
                            -tdg_saddle_position_from_center>>]

\* locals of create_simple_professional_tank
ssg_tank_diameter == 1870000
ssg_tank_length == 3680000
ssg_shell_thickness == 6000
ssg_saddle_position == 1070000

SsgParameters ==
    [made |-> TRUE,
     tank_diameter |-> ssg_tank_diameter,
     tank_length |-> ssg_tank_length,
     shell_thickness |-> ssg_shell_thickness,
     saddle_positions |-> <<ssg_saddle_position, -ssg_saddle_position>>]

\* locals of working_step_generator.create_professional_tank
wsg_tank_diameter == 1870000
wsg_tank_length == 3680000
wsg_shell_thickness == 6000
wsg_saddle_position == 1070000

WsgParameters ==
    [made |-> TRUE,
     tank_diameter |-> wsg_tank_diameter,
     tank_length |-> wsg_tank_length,
     shell_thickness |-> wsg_shell_thickness,
     saddle_positions |-> <<wsg_saddle_position, -wsg_saddle_position>>]

\* locals of final_step_generator.create_professional_tank
fsg_tank_diameter == 1870000
fsg_tank_length == 3680000
fsg_shell_thickness == 6000
fsg_saddle_position == 1070000

FsgParameters ==
    [made |-> TRUE,
     tank_diameter |-> fsg_tank_diameter,
     tank_length |-> fsg_tank_length,
     shell_thickness |-> fsg_shell_thickness,
     saddle_positions |-> <<fsg_saddle_position, -fsg_saddle_position>>]

NoGeometry == [made |-> FALSE]

\* GeneratorParameters with the length of working_step_generator mistyped
GeneratorParametersMismatch(p) ==
    CASE p = "tank_design_generator" -> TdgParameters
      [] p = "simple_step_generator" -> SsgParameters
      [] p = "working_step_generator" -> [WsgParameters EXCEPT !.tank_length = 3860000]
      [] p = "final_step_generator" -> FsgParameters

\* the parameters program p builds its tank from
GeneratorParameters(p) ==
    CASE p = "tank_design_generator" -> TdgParameters
      [] p = "simple_step_generator" -> SsgParameters
      [] p = "working_step_generator" -> WsgParameters
      [] p = "final_step_generator" -> FsgParameters

\* a call into the CAD library or the file system returns or raises
Outcomes == {"ok", "raise"}

\* the geometry construction of a generator: create_tank_model,
\* create_simple_professional_tank, create_professional_tank
create_tank(outcome) ==
    /\ prog \in Generators
    /\ gen_pc = "start"
    /\ IF outcome = "ok"
       THEN gen_pc' = "created" /\ geom' = GeneratorParameters(prog)
       ELSE gen_pc' = "create_failed" /\ geom' = NoGeometry
    /\ UNCHANGED <<prog, platform, last_response, server_vars, export_log, export_ret, pdf_vars, designer_vars>>
    /\ UNCHANGED script_vars

\* the three export methods of final_step_generator.export_step_file, in order
ExportMethods == <<"export_step(part, filename)",
                   "part.export_step(filename)",
                   "open(filename).write(part.to_step())">>

\* the nested try/except chain from method i on: the methods tried, each with
\* its outcome, ending at the first that succeeds
RECURSIVE ExportChain(_, _)
ExportChain(i, outcomes) ==
    IF i > Len(ExportMethods) THEN <<>>
    ELSE IF outcomes[i] = "ok"
         THEN <<[method |-> ExportMethods[i], outcome |-> "ok"]>>
         ELSE <<[method |-> ExportMethods[i], outcome |-> "raise"]>>
              \o ExportChain(i + 1, outcomes)

\* ExportReturn that only counts a success of the first method
ExportReturnFirstOnly(log) ==
    IF log # <<>> /\ log[1].outcome = "ok" THEN "True" ELSE "False"

\* the value export_step_file returns for the methods it tried
ExportReturn(log) ==
    IF log # <<>> /\ log[Len(log)].outcome = "ok" THEN "True" ELSE "False"

\* final_step_generator.export_step_file(part_object, filename)
export_step_file(outcomes) ==
    /\ prog = "final_step_generator"
    /\ gen_pc = "created"
    /\ export_log' = ExportChain(1, outcomes)
    /\ export_ret' = ExportReturn(ExportChain(1, outcomes))
    /\ gen_pc' = "exported"
    /\ UNCHANGED <<prog, platform, last_response, server_vars, geom, pdf_vars, designer_vars, script_vars>>

\* the scripts whose main() calls tank_model.export_step(filename) itself
DirectExporters == {"tank_design_generator", "simple_step_generator",
                    "working_step_generator"}

\* tank_model.export_step(output_filename) after the geometry was created
\* (simple_step_generator sets label and colour first, inside the same try)
export_step_direct(outcome) ==
    /\ prog \in DirectExporters
    /\ gen_pc = "created"
    /\ export_log' = <<[method |-> "part.export_step(filename)", outcome |-> outcome]>>
    /\ gen_pc' = "exported"
    /\ UNCHANGED <<prog, platform, last_response, server_vars, geom, export_ret, pdf_vars, designer_vars, script_vars>>

\* the scripts with a main() function
MainScripts == {"simple_step_generator", "working_step_generator",
                "final_step_generator"}

\* the try block succeeded: geometry created and the STEP file exported
StepExported(p, at, log, ret) ==
    /\ at = "exported"
    /\ IF p = "final_step_generator"
       THEN ret = "True"
       ELSE log # <<>> /\ log[Len(log)].outcome = "ok"

\* the value of main(): True at the end of the try block, False from the
\* except clause (final_step_generator raises when export_step_file is False)
MainReturn(p, at, log, ret) ==
    IF StepExported(p, at, log, ret) THEN "True" ELSE "False"

\* main() returns
main_return ==
    /\ prog \in MainScripts
    /\ gen_pc \in {"create_failed", "exported"}
    /\ main_ret' = MainReturn(prog, gen_pc, export_log, export_ret)
    /\ gen_pc' = "returned"
    /\ UNCHANGED <<prog, platform, last_response, server_vars, geom, export_log, export_ret, exit_status, tdg_run>>
    /\ UNCHANGED <<pdf_vars, designer_vars>>

\* ExitStatus with final_step_generator failing like the other two
ExitStatusFailureIsOne(p, ret) == IF ret = "True" THEN 0 ELSE 1

\* the exit status the __main__ block of a script ends with
ExitStatus(p, ret) ==
    CASE p = "final_step_generator" -> 0
      [] p = "working_step_generator" -> IF ret = "True" THEN 0 ELSE 1
      [] p = "simple_step_generator" -> IF ret # "True" THEN 1 ELSE 0

\* the __main__ block after main() returned
script_exit ==
    /\ prog \in MainScripts
    /\ gen_pc = "returned"
    /\ exit_status' = ExitStatus(prog, main_ret)
    /\ gen_pc' = "exited"
    /\ UNCHANGED <<prog, platform, last_response, server_vars, geom, export_log, export_ret, main_ret, tdg_run>>
    /\ UNCHANGED <<pdf_vars, designer_vars>>

\* Banner printed when either export succeeded
BannerOnAnySuccess(step_success, doc_success) == step_success \/ doc_success

\* if step_success and doc_success: the 'completed successfully' banner
Banner(step_success, doc_success) == step_success /\ doc_success

NotRun == [doc_attempted |-> FALSE]

\* tank_design_generator's __main__ from the return of export_step_file on:
\* step_success, export_documentation() (whose try block returns or raises)
\* and the banner
export_documentation(outcome) ==
    /\ prog = "tank_design_generator"
    /\ gen_pc \in {"create_failed", "exported"}
    /\ LET step == StepExported(prog, gen_pc, export_log, export_ret)
           doc == (outcome = "ok")
       IN  tdg_run' = [doc_attempted |-> TRUE,
                       step_success |-> step,
                       doc_success |-> doc,
                       raised |-> FALSE,
                       banner |-> Banner(step, doc)]
    /\ exit_status' = 0
    /\ gen_pc' = "exited"
    /\ UNCHANGED <<prog, platform, last_response, server_vars, geom, export_log, export_ret, main_ret>>
    /\ UNCHANGED <<pdf_vars, designer_vars>>

GeneratorInit ==
    /\ gen_pc = "start"
    /\ geom = NoGeometry
    /\ export_log = <<>>
    /\ export_ret = "none"
    /\ main_ret = "none"
    /\ exit_status = -1
    /\ tdg_run = NotRun

----------------------------------------------------------------------------
(* simple_pdf_generator.py *)

\* the (markdown file, pdf file, title) triples of main(): len(documents)
NumDocuments == 6

\* the steps of markdown_to_pdf's try block that can raise
PdfStages == <<"import", "read", "convert", "write">>
RaiseAts == {"none", "import", "read", "convert", "write"}

\* position of a stage in PdfStages; "none" lies after the last one
StageIndex(st) ==
    IF st = "none" THEN Len(PdfStages) + 1
    ELSE CHOOSE i \in 1..Len(PdfStages) : PdfStages[i] = st

\* stage st was completed when the first exception is raised at raise_at
StageDone(st, raise_at) == StageIndex(st) < StageIndex(raise_at)

\* markdown_to_pdf that reports success once the markdown was converted
markdown_to_pdf_early_true(raise_at) ==
    [called |-> TRUE,
     raised_at |-> raise_at,
     imported |-> StageDone("import", raise_at),
     read |-> StageDone("read", raise_at),
     converted |-> StageDone("convert", raise_at),
     written |-> StageDone("write", raise_at),
     propagated |-> FALSE,
     ret |-> StageDone("convert", raise_at)]

\* markdown_to_pdf(markdown_file, output_pdf, title) when the step raise_at
\* raises ("none": no step does): what was done and what is returned
markdown_to_pdf(raise_at) ==
    [called |-> TRUE,
     raised_at |-> raise_at,
     imported |-> StageDone("import", raise_at),
     read |-> StageDone("read", raise_at),
     converted |-> StageDone("convert", raise_at),
     written |-> StageDone("write", raise_at),
     propagated |-> FALSE,
     ret |-> StageDone("write", raise_at)]

NotCalled == [called |-> FALSE]

\* PdfMainResult that compares with the documents found instead of all six
PdfMainResultOfFound(succ, docs) ==
    succ = Cardinality({i \in 1..Len(docs) : docs[i].found})

\* return successful == total, total = len(documents)
PdfMainResult(succ, docs) == succ = NumDocuments

\* main() up to the loop: banner and pdf_dir.mkdir(exist_ok=True), which raises
\* when the name exists and is not a directory
pdf_main_start(mkdir) ==
    /\ prog = "simple_pdf_generator"
    /\ pdf_pc = "start"
    /\ pdf_pc' = IF mkdir = "ok" THEN "loop" ELSE "raised"
    /\ pdf_ret' = IF mkdir = "ok" THEN "none" ELSE "raised"
    /\ UNCHANGED <<prog, platform, last_response, server_vars, gen_vars, pdf_docs, pdf_last, successful, designer_vars>>

\* one iteration of main()'s loop over documents
pdf_main_document(exists, raise_at) ==
    /\ prog = "simple_pdf_generator"
    /\ pdf_pc = "loop"
    /\ Len(pdf_docs) < NumDocuments
    /\ IF exists
       THEN LET call == markdown_to_pdf(raise_at)
            IN  /\ pdf_last' = call
                /\ successful' = IF call.ret THEN successful + 1 ELSE successful
                /\ pdf_docs' = Append(pdf_docs,
                        [found |-> TRUE, called |-> TRUE, converted |-> call.ret,
                         not_found_printed |-> FALSE])
       ELSE /\ pdf_last' = NotCalled
            /\ successful' = successful
            /\ pdf_docs' = Append(pdf_docs,
                    [found |-> FALSE, called |-> FALSE, converted |-> FALSE,
                     not_found_printed |-> TRUE])
    /\ UNCHANGED <<prog, platform, last_response, server_vars, gen_vars, pdf_pc, pdf_ret, designer_vars>>

\* the end of main(): return successful == total
pdf_main_return ==
    /\ prog = "simple_pdf_generator"
    /\ pdf_pc = "loop"
    /\ Len(pdf_docs) = NumDocuments
    /\ pdf_ret' = IF PdfMainResult(successful, pdf_docs) THEN "True" ELSE "False"
    /\ pdf_pc' = "returned"
    /\ UNCHANGED <<prog, platform, last_response, server_vars, gen_vars, pdf_docs, pdf_last, successful, designer_vars>>

PdfInit ==
    /\ pdf_pc = "start"
    /\ pdf_docs = <<>>
    /\ pdf_last = NotCalled
    /\ successful = 0
    /\ pdf_ret = "none"

----------------------------------------------------------------------------
(* professional_tank_design_system.py: ProfessionalTankDesigner *)

\* capacities the designer is constructed with, in litres
Capacities == {-1000, 0, 500, 5000, 7999, 8000, 8001, 9000, 10000, 11999,
               12000, 12001, 50000, 2000000, 300000000, 1000000000}

Max(a, b) == IF a >= b THEN a ELSE b

\* floor(x * num / den) for x >= 0 without forming x * num
ScaleDiv(x, num, den) == (x \div den) * num + ((x % den) * num) \div den

\* largest r in lo..hi with r^3 <= n
RECURSIVE CubeRootSearch(_, _, _)
CubeRootSearch(n, lo, hi) ==
    IF lo = hi THEN lo
    ELSE LET mid == (lo + hi + 1) \div 2
         IN  IF mid * mid * mid <= n
             THEN CubeRootSearch(n, mid, hi)
             ELSE CubeRootSearch(n, lo, mid - 1)

\* floor of the cube root of n, 0 <= n < 1290^3
CubeRoot(n) == CubeRootSearch(n, 0, 1289)

\* math.pi as the fraction PiNum / PiDen
PiNum == 355
PiDen == 113

\* ((volume_m3 * 2 / math.pi) ** (1/3)) * 1000 in micrometres for a capacity
\* in litres, cap >= 0.  The root is taken in millimetres, centimetres or
\* decimetres, the finest unit whose cube stays below 2^31.
NonStandardDiameter(cap) ==
    IF cap <= 1000
    THEN CubeRoot(ScaleDiv(cap * 2000000, PiDen, PiNum)) * 1000
    ELSE IF cap <= 1000000
    THEN CubeRoot(ScaleDiv(cap * 2000, PiDen, PiNum)) * 10000
    ELSE CubeRoot(ScaleDiv(cap * 2, PiDen, PiNum)) * 100000

\* the capacity range of the standard BTA tank, litres
StandardMinCapacity == 8000
StandardMaxCapacity == 12000
\* the standard BTA size: micrometres, micrometres, litres
StandardDiameter == 1870000
StandardLength == 3680000
StandardCapacity == 9000

\* IsStandardCapacity with the upper bound excluded
IsStandardCapacityStrict(cap) == StandardMinCapacity <= cap /\ cap < StandardMaxCapacity

\* the if/else of _calculate_optimal_dimensions
IsStandardCapacity(cap) == StandardMinCapacity <= cap /\ cap <= StandardMaxCapacity
TankDiameter(cap) ==
    IF IsStandardCapacity(cap) THEN StandardDiameter ELSE NonStandardDiameter(cap)
TankLength(cap) ==
    IF IsStandardCapacity(cap) THEN StandardLength ELSE 2 * NonStandardDiameter(cap)
ActualCapacity(cap) ==
    IF IsStandardCapacity(cap) THEN StandardCapacity ELSE cap

\* self.design_pressure in thousandths of a psig, and Pa per 100 psi
DesignPressureMilliPsi == 2500
PascalPer100Psi == 689476
\* material_properties['yield_strength'], MPa
YieldStrength == 300
\* joint_efficiency, percent
JointEfficiencyPct == 85
\* corrosion_allowance and minimum_thickness, micrometres
CorrosionAllowance == 1500
MinimumThickness == 6000

\* pressure_mpa, in Pa
PressurePa == (DesignPressureMilliPsi * PascalPer100Psi) \div 100000
\* allowable_stress = yield_strength * 0.4, in Pa
AllowableStressPa == ((YieldStrength * 4) \div 10) * 1000000
\* allowable_stress * joint_efficiency - 0.6 * pressure_mpa, in Pa
ThicknessDenominatorPa ==
    (AllowableStressPa \div 100) * JointEfficiencyPct - (PressurePa * 6) \div 10

\* calculated_thickness for a diameter, micrometres; the radius enters in
\* whole millimetres and the denominator in kPa
CalculatedThickness(diameter) ==
    (PressurePa * ((diameter \div 2) \div 1000)) \div (ThicknessDenominatorPa \div 1000)
        + CorrosionAllowance

\* ShellThickness without the minimum
ShellThicknessNoMinimum(diameter) == CalculatedThickness(diameter)

\* self.shell_thickness = max(calculated_thickness, minimum_thickness)
ShellThickness(diameter) == Max(CalculatedThickness(diameter), MinimumThickness)

\* self.knuckle_radius = max(60.0, self.tank_diameter * 0.06)
KnuckleFloor == 60000
KnuckleRadiusNoFloor(diameter) == ScaleDiv(diameter, 6, 100)
KnuckleRadius(diameter) == Max(KnuckleFloor, ScaleDiv(diameter, 6, 100))

\* self.crown_radius = self.tank_diameter
CrownRadius(diameter) == diameter

\* saddle_position = self.tank_length * 0.29
SaddlePosition(length) == ScaleDiv(length, 29, 100)
\* 'spacing': 2140.0 of the support_saddles component
SaddleSpacing == 2140000

\* the components of _generate_component_specifications the claims speak of
Components(d) ==
    [shell |->
        [dimensions |-> [diameter |-> d.tank_diameter,
                         length |-> d.tank_length,
                         thickness |-> d.shell_thickness],
         thickness |-> d.shell_thickness],
     dished_ends |->
        [dimensions |-> [diameter |-> d.tank_diameter,
                         knuckle_radius |-> d.knuckle_radius,
                         crown_radius |-> d.crown_radius,
                         thickness |-> d.shell_thickness],
         thickness |-> d.shell_thickness],
     support_saddles |->
        [dimensions |-> [width |-> 250000,
                         height |-> 600000,
                         thickness |-> 10000,
                         contact_angle |-> 120,
                         spacing |-> SaddleSpacing,
                         position_from_center |-> SaddlePosition(d.tank_length)],
         thickness |-> 10000]]

\* the fields _calculate_optimal_dimensions sets
Dimensions(cap) ==
    [capacity_liters |-> cap,
     tank_diameter |-> TankDiameter(cap),
     tank_length |-> TankLength(cap),
     actual_capacity |-> ActualCapacity(cap),
     shell_thickness |-> ShellThickness(TankDiameter(cap)),
     knuckle_radius |-> KnuckleRadius(TankDiameter(cap)),
     crown_radius |-> CrownRadius(TankDiameter(cap))]

\* SafetyRequirement(standard, requirement_id, description, compliance_status,
\* verification_method, inspector_required) without the two texts
SafetyRequirement(standard, requirement_id, compliance_status, inspector_required) ==
    [standard |-> standard,
     requirement_id |-> requirement_id,
     compliance_status |-> compliance_status,
     inspector_required |-> inspector_required]

\* the lists of _generate_safety_requirements
sans_requirements ==
    <<SafetyRequirement("SANS 10131:2004", "4.1", FALSE, TRUE),
      SafetyRequirement("SANS 10131:2004", "4.2", FALSE, TRUE),
      SafetyRequirement("SANS 10131:2004", "5.1", FALSE, TRUE),
      SafetyRequirement("SANS 10131:2004", "6.1", FALSE, TRUE),
      SafetyRequirement("SANS 10131:2004", "A.4", FALSE, TRUE)>>
api_650_requirements ==
    <<SafetyRequirement("API 650", "5.3", FALSE, TRUE),
      SafetyRequirement("API 650", "5.7", FALSE, TRUE),
      SafetyRequirement("API 650", "5.10", FALSE, TRUE),
      SafetyRequirement("API 650", "8.1", FALSE, TRUE)>>
iso_9001_requirements ==
    <<SafetyRequirement("ISO 9001", "7.1", FALSE, FALSE),
      SafetyRequirement("ISO 9001", "7.5", FALSE, FALSE),
      SafetyRequirement("ISO 9001", "8.1", FALSE, FALSE),
      SafetyRequirement("ISO 9001", "8.7", FALSE, FALSE)>>
material_requirements ==
    <<SafetyRequirement("SANS 1431", "6.1", FALSE, TRUE),
      SafetyRequirement("SANS 1431", "7.1", FALSE, TRUE)>>
welding_requirements ==
    <<SafetyRequirement("SANS 9956-3", "5.1", FALSE, TRUE),
      SafetyRequirement("SANS 9606-1", "4.1", FALSE, TRUE)>>

\* SafetyRequirements with the welding list left out of the sum
SafetyRequirementsWithoutWelding ==
    sans_requirements \o api_650_requirements \o iso_9001_requirements
        \o material_requirements

\* self.safety_requirements
SafetyRequirements ==
    sans_requirements \o api_650_requirements \o iso_9001_requirements
        \o material_requirements \o welding_requirements

\* the values of the SafetyStandard enumeration, in its order
SafetyStandard ==
    <<"SANS 10131:2004", "API 650", "API 653", "ASME BPVC Section VIII",
      "ISO 9001", "SANS 1431", "SANS 62-1", "SANS 9956-3", "SANS 9606-1",
      "ISO 8501-1">>

\* the number the dashboards show in the 'Safety Standards' card
DashboardSafetyStandards == 17

\* ProfessionalTankDesigner(capacity_liters).  A negative capacity outside the
\* standard range makes the cube root complex and max() raise TypeError.
Construct(cap) ==
    IF cap < 0 /\ ~IsStandardCapacity(cap)
    THEN [state |-> "raised", capacity_liters |-> cap]
    ELSE LET d == Dimensions(cap)
         IN  [state |-> "constructed",
              capacity_liters |-> cap,
              tank_diameter |-> d.tank_diameter,
              tank_length |-> d.tank_length,
              actual_capacity |-> d.actual_capacity,
              shell_thickness |-> d.shell_thickness,
              knuckle_radius |-> d.knuckle_radius,
              crown_radius |-> d.crown_radius,
              components |-> Components(d),
              safety_requirements |-> SafetyRequirements]

\* the 'SAFETY STANDARDS COMPLIANCE MATRIX' of generate_comprehensive_report:
\* the total, and one 'Requirements: n' table per standard that has any
ReportSafety(d) ==
    [total_safety_requirements |-> Len(d.safety_requirements),
     requirements_by_standard |->
        [st \in {d.safety_requirements[i].standard :
                    i \in 1..Len(d.safety_requirements)} |->
            Cardinality({i \in 1..Len(d.safety_requirements) :
                            d.safety_requirements[i].standard = st})]]

\* the shell thickness lines of generate_comprehensive_report
ReportThickness(d) ==
    [made |-> TRUE,
     calculated_thickness |-> d.shell_thickness,
     minimum_thickness |-> MinimumThickness,
     selected_thickness |-> Max(d.shell_thickness, MinimumThickness)]

\* designer = ProfessionalTankDesigner(capacity_liters=cap)
construct_designer(cap) ==
    /\ prog = "professional_tank_design_system"
    /\ designer.state = "none"
    /\ designer' = Construct(cap)
    /\ UNCHANGED <<prog, platform, last_response, server_vars, gen_vars, pdf_vars, report, ptd_vars>>

\* designer.generate_comprehensive_report()
generate_comprehensive_report ==
    /\ prog = "professional_tank_design_system"
    /\ designer.state = "constructed"
    /\ ~report.made
    /\ report' = ReportThickness(designer) @@ ReportSafety(designer)
    /\ UNCHANGED <<prog, platform, last_response, server_vars, gen_vars, pdf_vars, designer, ptd_vars>>

ReportFile == "Tank_Design_Analysis_Report.md"
ChecklistFile == "Tank_Safety_Compliance_Checklist.md"

\* main(): open("Tank_Design_Analysis_Report.md", "w") and f.write(report);
\* an exception leaves main()
write_report(outcome) ==
    /\ prog = "professional_tank_design_system"
    /\ ptd_run.pc = "start"
    /\ report.made
    /\ ptd_run' = IF outcome = "ok"
                  THEN [ptd_run EXCEPT !.pc = "report_written",
                                       !.written = @ \cup {ReportFile}]
                  ELSE [ptd_run EXCEPT !.pc = "raised"]
    /\ UNCHANGED <<prog, platform, last_response, server_vars, gen_vars, pdf_vars, designer, report>>
    /\ UNCHANGED build123d_available

\* main(): generate_safety_checklist() and the write of the checklist file
write_checklist(outcome) ==
    /\ prog = "professional_tank_design_system"
    /\ ptd_run.pc = "report_written"
    /\ ptd_run' = IF outcome = "ok"
                  THEN [ptd_run EXCEPT !.pc = "checklist_written",
                                       !.written = @ \cup {ChecklistFile}]
                  ELSE [ptd_run EXCEPT !.pc = "raised"]
    /\ UNCHANGED <<prog, platform, last_response, server_vars, gen_vars, pdf_vars, designer, report>>
    /\ UNCHANGED build123d_available

\* StepFileResult without the BUILD123D_AVAILABLE test: the geometry calls are
\* made (and raise when the library is missing)
StepFileResultNoGuard(available, geometry, export) ==
    [geometry_attempted |-> TRUE,
     export_attempted |-> available /\ geometry = "ok",
     raised |-> FALSE,
     step_success |-> available /\ geometry = "ok" /\ export = "ok"]

\* create_professional_step_file: False at once without the CAD library, else
\* the try block (geometry, then export_step), False from the except clause
StepFileResult(available, geometry, export) ==
    IF ~available
    THEN [geometry_attempted |-> FALSE, export_attempted |-> FALSE,
          raised |-> FALSE, step_success |-> FALSE]
    ELSE [geometry_attempted |-> TRUE,
          export_attempted |-> geometry = "ok",
          raised |-> FALSE,
          step_success |-> geometry = "ok" /\ export = "ok"]

\* main(): step_success = designer.create_professional_step_file(...) and the
\* closing messages
create_professional_step_file(geometry, export) ==
    /\ prog = "professional_tank_design_system"
    /\ ptd_run.pc = "checklist_written"
    /\ ptd_run' = [ptd_run EXCEPT !.pc = "done",
                                  !.step_attempted = TRUE,
                                  !.step = StepFileResult(build123d_available,
                                                          geometry, export)]
    /\ UNCHANGED <<prog, platform, last_response, server_vars, gen_vars, pdf_vars, designer, report>>
    /\ UNCHANGED build123d_available

DesignerInit ==
    /\ designer = [state |-> "none"]
    /\ report = [made |-> FALSE]
    /\ IF prog = "professional_tank_design_system"
       THEN build123d_available \in BOOLEAN
       ELSE build123d_available = TRUE
    /\ ptd_run = [pc |-> "start", written |-> {}, step_attempted |-> FALSE,
                  step |-> [geometry_attempted |-> FALSE,
                            export_attempted |-> FALSE,
                            raised |-> FALSE,
                            step_success |-> FALSE]]

----------------------------------------------------------------------------

Programs == Servers \cup Generators
            \cup {"simple_pdf_generator", "professional_tank_design_system"}

Init ==
    /\ prog \in Programs
    /\ ServerInit
    /\ GeneratorInit
    /\ PdfInit
    /\ DesignerInit

Next ==
    \/ pc = "idle" /\ \E r \in Requests : do_GET(r)
    \/ serve_document_read
    \/ finish_request
    \/ \E n \in MutableFiles, k \in FileKinds : change_file(n, k)
    \/ \E o \in Outcomes : create_tank(o)
    \/ \E o \in [1..Len(ExportMethods) -> Outcomes] : export_step_file(o)
    \/ \E o \in Outcomes : export_step_direct(o)
    \/ main_return
    \/ script_exit
    \/ \E o \in Outcomes : export_documentation(o)
    \/ \E o \in Outcomes : pdf_main_start(o)
    \/ \E e \in BOOLEAN, r \in RaiseAts : pdf_main_document(e, r)
    \/ pdf_main_return
    \/ \E c \in Capacities : construct_designer(c)
    \/ generate_comprehensive_report
    \/ \E o \in Outcomes : write_report(o)
    \/ \E o \in Outcomes : write_checklist(o)
    \/ \E g \in Outcomes, e \in Outcomes : create_professional_step_file(g, e)

Spec == Init /\ [][Next]_vars

\* requests for the documents other processes write and remove
DocumentRequests ==
    {Flatten(<<NameDocument, n>>) \o q : n \in MutableFiles, q \in Queries}

\* a server under document requests only, with the history of answers kept
InitFresh == Init /\ prog \in Servers

NextFresh ==
    \/ pc = "idle" /\ \E r \in DocumentRequests : do_GET(r)
    \/ serve_document_read
    \/ finish_request_recorded
    \/ \E n \in MutableFiles, k \in FileKinds : change_file(n, k)

SpecFresh == InitFresh /\ [][NextFresh]_vars

----------------------------------------------------------------------------
(* Claims about the documentation servers *)

\* a request is being handled or has just been answered
InRequest == pc \in {"open", "done"}

DashboardPaths == {<<"/">>, <<"/", "index.html">>}
IsDocumentPath(p) == Len(p) >= 3 /\ SubSeq(p, 1, 3) = <<"/", "document", "/">>

\* C1: routing of a GET depends only on the path component of the URL and is a
\* three-way partition: '/' and '/index.html' get the built-in dashboard (200,
\* text/html; charset=utf-8) even though index.html exists on disk, a path
\* starting with '/document/' goes to serve_document, every other path is
\* delegated unchanged to the static-file handler.
C1_RoutingPartition ==
    InRequest =>
        LET p == UrlParsePath(path)
        IN  /\ p \in DashboardPaths =>
                /\ pc = "done"
                /\ Len(resp) = 1
                /\ resp[1].status = 200
                /\ resp[1].ctype = "text/html; charset=utf-8"
                /\ resp[1].body = <<"dashboard", prog>>
                /\ opened = <<>>
                /\ delegated = <<>>
            /\ (p \notin DashboardPaths /\ IsDocumentPath(p)) =>
                /\ delegated = <<>>
                /\ doc_name = LastSegment(p)
                /\ \/ pc = "open" /\ resp = <<>>
                   \/ /\ pc = "done"
                      /\ Len(resp) = 1
                      /\ resp[1].body[1] \in {"page", "error"}
            /\ (p \notin DashboardPaths /\ ~IsDocumentPath(p)) =>
                /\ pc = "done"
                /\ delegated = <<path>>
                /\ resp = <<>>
                /\ opened = <<>>

\* the dashboard answers '/index.html?q' although index.html is a file on disk
C1_Witness ==
    /\ pc = "done"
    /\ path = <<"/", "index.html", "?", "q">>
    /\ Exists(fs, NameIndex)
    /\ Len(resp) = 1
    /\ resp[1].body = <<"dashboard", prog>>

\* C2: for /document/<name> where <name> exists and is readable UTF-8 text the
\* response is 200, text/html; charset=utf-8, and a page that embeds the content:
\* converted from markdown when <name> ends with '.md', else verbatim in <pre>.
C2_DocumentServed ==
    [][ /\ (/\ pc = "idle"
            /\ pc' # "idle"
            /\ IsDocumentPath(UrlParsePath(path'))
            /\ LastSegment(UrlParsePath(path')) \in DOMAIN fs
            /\ fs[LastSegment(UrlParsePath(path'))] \in TextContents)
           => (pc' = "open" /\ resp' = <<>>)
        /\ (/\ pc = "open"
            /\ pc' = "done"
            /\ doc_name \in DOMAIN fs
            /\ fs[doc_name] \in TextContents)
           => /\ Len(resp') = 1
              /\ resp'[1].status = 200
              /\ resp'[1].ctype = "text/html; charset=utf-8"
              /\ resp'[1].body[1] = "page"
              /\ IF doc_name[Len(doc_name)] = ".md"
                 THEN /\ resp'[1].body[3][1] = "markdown"
                      /\ resp'[1].body[3][3] = fs[doc_name]
                 ELSE resp'[1].body[3] = <<"<pre>", fs[doc_name], "</pre>">>
      ]_vars

\* a markdown document was served converted
C2_Witness ==
    /\ pc = "done"
    /\ path = <<"/", "document", "/", "a", ".md">>
    /\ Len(resp) = 1
    /\ resp[1].status = 200
    /\ resp[1].body[3][1] = "markdown"
    /\ opened = <<NameA>>

\* C3: for /document/<name> where <name> does not exist (the empty name of
\* '/document/' included) the response is exactly one 404, the file is never
\* opened and no 200 is sent.
C3_MissingDocument ==
    [][ /\ (/\ pc = "idle"
            /\ pc' # "idle"
            /\ IsDocumentPath(UrlParsePath(path'))
            /\ \/ LastSegment(UrlParsePath(path')) \notin DOMAIN fs
               \/ fs[LastSegment(UrlParsePath(path'))] = "absent")
           => /\ pc' = "done"
              /\ Len(resp') = 1
              /\ resp'[1].status = 404
              /\ opened' = <<>>
        /\ (/\ pc = "done"
            /\ Len(resp) = 1
            /\ resp[1].status = 404)
           => \/ pc' = "idle"
              \/ (pc' = "done" /\ resp' = resp /\ opened' = opened /\ opened = <<>>)
      ]_vars

\* '/document/' was answered with a single 404 and nothing was opened
C3_Witness ==
    /\ pc = "done"
    /\ path = <<"/", "document", "/">>
    /\ Len(resp) = 1
    /\ resp[1].status = 404
    /\ opened = <<>>

----------------------------------------------------------------------------
(* Claims about the STEP export of final_step_generator *)

C4_Order == <<"export_step(part, filename)",
              "part.export_step(filename)",
              "open(filename).write(part.to_step())">>

\* C4: export_step_file tries (1) export_step(part, filename), (2)
\* part.export_step(filename), (3) open + part.to_step() strictly in this
\* order, returns True at the first method that succeeds without trying a
\* later one, returns False iff all three raised, and never propagates.
C4_ExportFallback ==
    (/\ prog = "final_step_generator"
     /\ geom.made
     /\ gen_pc \in {"exported", "returned", "exited"}) =>
        /\ Len(export_log) \in 1..3
        /\ \A i \in 1..Len(export_log) : export_log[i].method = C4_Order[i]
        /\ \A i \in 1..(Len(export_log) - 1) : export_log[i].outcome = "raise"
        /\ export_ret \in {"True", "False"}
        /\ export_ret = "True" <=> export_log[Len(export_log)].outcome = "ok"
        /\ export_ret = "False" <=>
              /\ Len(export_log) = 3
              /\ \A i \in 1..3 : export_log[i].outcome = "raise"

\* the first method raised, the second succeeded, the third was not tried
C4_Witness ==
    /\ gen_pc = "exported"
    /\ Len(export_log) = 2
    /\ export_log[1].outcome = "raise"
    /\ export_log[2].outcome = "ok"
    /\ export_ret = "True"

----------------------------------------------------------------------------
(* Claims about simple_pdf_generator *)

\* C5: markdown_to_pdf never raises: it returns True exactly when the file was
\* read, converted and the PDF written, and False when any step (import, read,
\* conversion, writing) raises.
C5_MarkdownToPdfTotal ==
    pdf_last.called =>
        /\ ~pdf_last.propagated
        /\ pdf_last.ret \in BOOLEAN
        /\ pdf_last.ret <=>
              (pdf_last.read /\ pdf_last.converted /\ pdf_last.written)
        /\ pdf_last.raised_at \in {"import", "read", "convert", "write"}
              => pdf_last.ret = FALSE
        /\ pdf_last.raised_at = "none" => pdf_last.ret = TRUE

\* the PDF could not be written after a successful conversion
C5_Witness ==
    /\ pdf_last.called
    /\ pdf_last.raised_at = "write"
    /\ pdf_last.converted
    /\ pdf_last.ret = FALSE

\* C6: main returns True iff each of the six documents exists and was
\* converted; a missing document is reported 'File not found', is not
\* converted, still counts in the total of 6 and so makes the result False.
C6_MainResult ==
    /\ \A i \in 1..Len(pdf_docs) :
          ~pdf_docs[i].found =>
              /\ pdf_docs[i].not_found_printed
              /\ ~pdf_docs[i].called
              /\ ~pdf_docs[i].converted
    /\ pdf_pc = "returned" =>
          /\ Len(pdf_docs) = 6
          /\ pdf_ret \in {"True", "False"}
          /\ pdf_ret = "True" <=>
                \A i \in 1..6 : pdf_docs[i].found /\ pdf_docs[i].converted
    /\ pdf_ret = "True" => pdf_pc = "returned"

\* five documents converted, one missing: main returned False
C6_Witness ==
    /\ pdf_pc = "returned"
    /\ Cardinality({i \in 1..6 : ~pdf_docs[i].found}) = 1
    /\ Cardinality({i \in 1..6 : pdf_docs[i].converted}) = 5
    /\ pdf_ret = "False"

----------------------------------------------------------------------------
(* Claims about ProfessionalTankDesigner and the generators' parameters *)

Constructed == designer.state = "constructed"

\* C7: for every capacity with 8000 <= capacity_liters <= 12000, both bounds
\* included, the designer uses the standard BTA size: diameter 1870 mm,
\* length 3680 mm, actual capacity 9000 L.
C7_StandardSize ==
    (/\ designer.state # "none"
     /\ 8000 <= designer.capacity_liters
     /\ designer.capacity_liters <= 12000)
    => /\ Constructed
       /\ designer.tank_diameter = 1870000
       /\ designer.tank_length = 3680000
       /\ designer.actual_capacity = 9000

\* the upper bound 12000 itself got the standard size
C7_Witness ==
    /\ Constructed
    /\ designer.capacity_liters = 12000
    /\ designer.tank_diameter = 1870000
    /\ designer.actual_capacity = 9000

\* C8: shell_thickness is never below the 6.0 mm minimum: it is the larger of
\* the API 650 calculated thickness and 6.0, and the shell and dished-end
\* components (and the report's selected thickness) carry the same value.
C8_ShellThickness ==
    /\ Constructed =>
          LET calc == CalculatedThickness(designer.tank_diameter)
          IN  /\ designer.shell_thickness >= 6000
              /\ designer.shell_thickness = IF calc > 6000 THEN calc ELSE 6000
              /\ designer.components.shell.thickness = designer.shell_thickness
              /\ designer.components.shell.dimensions.thickness
                    = designer.shell_thickness
              /\ designer.components.dished_ends.thickness
                    = designer.shell_thickness
              /\ designer.components.dished_ends.dimensions.thickness
                    = designer.shell_thickness
    /\ report.made =>
          /\ Constructed
          /\ report.selected_thickness = designer.shell_thickness
          /\ report.selected_thickness >= 6000

\* a tank so large that the calculated thickness exceeds the minimum
C8_Witness ==
    /\ Constructed
    /\ report.made
    /\ CalculatedThickness(designer.tank_diameter) > 6000
    /\ designer.shell_thickness > 6000

\* a tank for which the minimum decides
C8_WitnessMinimum ==
    /\ Constructed
    /\ CalculatedThickness(designer.tank_diameter) < 6000
    /\ designer.shell_thickness = 6000

\* C9: knuckle radius >= 50 mm and D <= crown radius <= 1.5 * D, for the
\* constants of tank_design_generator and for every designer capacity.
C9_DishedEndLimits ==
    /\ (prog = "tank_design_generator" /\ geom.made) =>
          /\ geom.knuckle_radius >= 50000
          /\ geom.tank_diameter <= geom.crown_radius
          /\ 2 * geom.crown_radius <= 3 * geom.tank_diameter
    /\ Constructed =>
          /\ designer.knuckle_radius >= 50000
          /\ designer.tank_diameter <= designer.crown_radius
          /\ 2 * designer.crown_radius <= 3 * designer.tank_diameter
          /\ designer.components.dished_ends.dimensions.knuckle_radius
                = designer.knuckle_radius
          /\ designer.components.dished_ends.dimensions.crown_radius
                = designer.crown_radius

\* a small tank, where 6 % of the diameter is below the 60 mm floor
C9_Witness ==
    /\ Constructed
    /\ designer.tank_diameter > 0
    /\ designer.tank_diameter * 6 < 60000 * 100
    /\ designer.knuckle_radius = 60000

\* C10: the saddles sit at half the 2140 mm spacing of Table A.1: in every
\* generator and in the designer's support_saddles component for the standard
\* tank the position from centre is 1070 mm, 2 * position = spacing = 2140.
C10_SaddleHalfSpacing ==
    /\ (prog \in Generators /\ geom.made) =>
          /\ geom.saddle_positions[1] = 1070000
          /\ 2 * geom.saddle_positions[1] = 2140000
    /\ (Constructed /\ designer.actual_capacity = 9000
                    /\ designer.tank_length = 3680000) =>
          LET saddles == designer.components.support_saddles.dimensions
          IN  /\ saddles.position_from_center = 1070000
              /\ 2 * saddles.position_from_center = saddles.spacing
              /\ saddles.spacing = 2140000

----------------------------------------------------------------------------
(* Claims about the generator scripts *)

\* C11: all generators build the tank from the same principal dimensions:
\* diameter 1870 mm, length 3680 mm, shell thickness 6 mm, in the four
\* generator scripts and in the designer constructed with its default 10000 L.
C11_SamePrincipalDimensions ==
    /\ (prog \in Generators /\ geom.made) =>
          /\ geom.tank_diameter = 1870000
          /\ geom.tank_length = 3680000
          /\ geom.shell_thickness = 6000
    /\ (designer.state # "none" /\ designer.capacity_liters = 10000) =>
          /\ Constructed
          /\ designer.tank_diameter = 1870000
          /\ designer.tank_length = 3680000
          /\ designer.shell_thickness = 6000
          /\ designer.components.shell.dimensions
                = [diameter |-> 1870000, length |-> 3680000, thickness |-> 6000]

\* simple_step_generator created its geometry from 1870 / 3680 / 6
C11_Witness ==
    /\ prog = "simple_step_generator"
    /\ geom.made
    /\ geom.tank_length = 3680000

\* the designer with the default capacity
C11_WitnessDesigner ==
    /\ Constructed
    /\ designer.capacity_liters = 10000
    /\ designer.shell_thickness = 6000

\* the try block of main() went through: geometry made, STEP file exported
C12_Succeeded ==
    /\ geom.made
    /\ export_log # <<>>
    /\ export_log[Len(export_log)].outcome = "ok"

\* C12: final_step_generator exits with status 0 both on success and on
\* failure, working_step_generator and simple_step_generator exit 1 on failure
\* and 0 on success; in all three main() returns False, never raises, when the
\* geometry creation or the export raises.
C12_ExitStatus ==
    (prog \in {"final_step_generator", "working_step_generator",
               "simple_step_generator"}) =>
        /\ gen_pc \in {"returned", "exited"} =>
              /\ main_ret \in {"True", "False"}
              /\ main_ret = "True" <=> C12_Succeeded
        /\ gen_pc = "exited" =>
              IF prog = "final_step_generator"
              THEN exit_status = 0
              ELSE /\ main_ret = "True" => exit_status = 0
                   /\ main_ret = "False" => exit_status = 1
        /\ gen_pc # "exited" => exit_status = -1

\* final_step_generator: all three export methods raised, main() returned
\* False, and the script still exited with status 0
C12_Witness ==
    /\ prog = "final_step_generator"
    /\ gen_pc = "exited"
    /\ Len(export_log) = 3
    /\ export_ret = "False"
    /\ main_ret = "False"
    /\ exit_status = 0

\* working_step_generator: the export raised, main() returned False, exit 1
C12_WitnessFailure ==
    /\ prog = "working_step_generator"
    /\ gen_pc = "exited"
    /\ main_ret = "False"
    /\ exit_status = 1

\* C18: tank_design_generator as a script always attempts the documentation
\* export after the STEP export, also when the STEP export failed;
\* export_step_file and export_documentation return False instead of raising;
\* the 'completed successfully' banner is printed iff both returned True.
C18_DocumentationAlwaysAttempted ==
    prog = "tank_design_generator" =>
        /\ gen_pc \in {"create_failed", "exported"} =>
              /\ ~tdg_run.doc_attempted
              /\ ENABLED (\E o \in {"ok", "raise"} : export_documentation(o))
        /\ gen_pc = "exited" =>
              /\ tdg_run.doc_attempted
              /\ ~tdg_run.raised
              /\ tdg_run.step_success \in BOOLEAN
              /\ tdg_run.doc_success \in BOOLEAN
              /\ tdg_run.step_success <=> C12_Succeeded
              /\ tdg_run.banner <=> (tdg_run.step_success /\ tdg_run.doc_success)
        /\ gen_pc \in {"start", "created", "create_failed", "exported", "exited"}

\* the geometry could not be created, the documentation was still exported,
\* and no banner was printed
C18_Witness ==
    /\ prog = "tank_design_generator"
    /\ gen_pc = "exited"
    /\ ~geom.made
    /\ ~tdg_run.step_success
    /\ tdg_run.doc_attempted
    /\ tdg_run.doc_success
    /\ ~tdg_run.banner

----------------------------------------------------------------------------
(* Claims about professional_tank_design_system.main and the requirements *)

BothDocuments == {"Tank_Design_Analysis_Report.md",
                  "Tank_Safety_Compliance_Checklist.md"}

\* C13: in main the analysis report and the safety checklist are both written
\* before STEP generation is attempted and stay written whatever its outcome;
\* without the CAD library create_professional_step_file returns False
\* without attempting geometry or export, and it never raises.
C13_DocumentsBeforeStep ==
    [][ /\ ptd_run.written \subseteq ptd_run'.written
        /\ ptd_run'.step_attempted =>
              /\ BothDocuments \subseteq ptd_run'.written
              /\ ptd_run'.pc = "done"
              /\ ~ptd_run'.step.raised
              /\ ptd_run'.step.step_success \in BOOLEAN
              /\ ~build123d_available' =>
                    /\ ~ptd_run'.step.step_success
                    /\ ~ptd_run'.step.geometry_attempted
                    /\ ~ptd_run'.step.export_attempted
        /\ (~ptd_run.step_attempted /\ ptd_run'.step_attempted) =>
              BothDocuments \subseteq ptd_run.written
      ]_vars

\* documentation-only mode: both documents on disk, STEP generation refused
C13_Witness ==
    /\ ptd_run.pc = "done"
    /\ ~build123d_available
    /\ ptd_run.step_attempted
    /\ ptd_run.written = BothDocuments
    /\ ~ptd_run.step.step_success
    /\ ~ptd_run.step.geometry_attempted

\* sum of the per-standard counts the report tabulates
RECURSIVE C14_SumOfTables(_, _)
C14_SumOfTables(counts, stds) ==
    IF stds = <<>> THEN 0
    ELSE (IF Head(stds) \in DOMAIN counts THEN counts[Head(stds)] ELSE 0)
         + C14_SumOfTables(counts, Tail(stds))

\* C14: for every capacity the designer holds exactly 17 safety requirements
\* (the dashboards' '17 Safety Standards'), each with compliance_status False
\* after construction, and the report's 'Total Safety Requirements' equals
\* the sum of the per-standard requirement counts it tabulates.
C14_SeventeenRequirements ==
    /\ Constructed =>
          /\ Len(designer.safety_requirements) = 17
          /\ Len(designer.safety_requirements) = DashboardSafetyStandards
          /\ \A i \in 1..Len(designer.safety_requirements) :
                designer.safety_requirements[i].compliance_status = FALSE
    /\ report.made =>
          /\ report.total_safety_requirements = 17
          /\ report.total_safety_requirements
                = C14_SumOfTables(report.requirements_by_standard, SafetyStandard)
          /\ DOMAIN report.requirements_by_standard
                \subseteq {SafetyStandard[i] : i \in 1..Len(SafetyStandard)}

\* the report of a non-standard tank lists 17 requirements over six standards
C14_Witness ==
    /\ Constructed
    /\ designer.capacity_liters = 50000
    /\ report.made
    /\ report.total_safety_requirements = 17
    /\ Cardinality(DOMAIN report.requirements_by_standard) = 6

----------------------------------------------------------------------------
(* Claims about failures and freshness of serve_document *)

\* C16: when the named document passed the existence check but reading or
\* converting it raises (the name is a directory, the content is not valid
\* UTF-8, or the file was removed between the check and the open),
\* serve_document answers with a 500 error and sends no 200 for the request.
C16_ReadFailureIs500 ==
    [][ (/\ pc = "open"
         /\ pc' = "done"
         /\ \/ doc_name \notin DOMAIN fs
            \/ fs[doc_name] \in {"absent", "dir", "bin"})
        => /\ Len(resp') = 1
           /\ resp'[1].status = 500
           /\ \A i \in 1..Len(resp') : resp'[i].status # 200
           /\ opened' = <<doc_name>>
      ]_vars

\* the file was removed between os.path.exists and open: one 500, no 200
C16_Witness ==
    /\ pc = "done"
    /\ doc_name \in MutableFiles
    /\ opened = <<doc_name>>
    /\ fs[doc_name] = "absent"
    /\ Len(resp) = 1
    /\ resp[1].status = 500

\* a directory and a file that is not UTF-8 are answered with 500 as well
C16_WitnessDirectory ==
    /\ pc = "done"
    /\ opened = <<NameA>>
    /\ fs[NameA] = "dir"
    /\ resp = <<ErrorResponse(500)>>

C16_WitnessNotUtf8 ==
    /\ pc = "done"
    /\ opened = <<NameB>>
    /\ fs[NameB] = "bin"
    /\ resp = <<ErrorResponse(500)>>

----------------------------------------------------------------------------
(* Claims about the file a document request reaches *)

\* C15: the file name given to serve_document is the part of the request path
\* after its last '/', so it contains no '/'; every document request is
\* resolved as a direct entry of the server's working directory, intermediate
\* path segments being discarded, and no /document/ request causes a regular
\* file outside the working directory to be read.
C15_NoFileOutsideWorkingDirectory ==
    (InRequest /\ IsDocumentPath(UrlParsePath(path))) =>
        /\ doc_name = LastSegment(UrlParsePath(path))
        /\ \A i \in 1..Len(doc_name) : doc_name[i] # "/"
        /\ (pc = "done" /\ opened # <<>> /\ resp[1].status = 200) =>
              \A i \in 1..Len(opened) :
                 ResolvedDirectory(platform, opened[i]) = "cwd"

\* '/document/a/b.txt' serves b.txt of the working directory
C15_WitnessSegmentsDiscarded ==
    /\ pc = "done"
    /\ path = <<"/", "document", "/", "a", ".md", "/", "b", ".txt">>
    /\ opened = <<NameB>>
    /\ Len(resp) = 1
    /\ resp[1].status = 200

----------------------------------------------------------------------------
(* Claims about requests that follow one another *)

\* C17: the document handler keeps no state between requests: each /document/
\* request checks and reads the file anew, so across any sequence of file
\* creations, modifications, deletions and requests the response reflects the
\* file's existence and content at the time of that request, whatever was
\* answered before.
C17_FreshEachRequest ==
    [][ /\ (/\ pc = "idle"
            /\ pc' # "idle"
            /\ IsDocumentPath(UrlParsePath(path')))
           => LET n == LastSegment(UrlParsePath(path'))
              IN  IF n \in DOMAIN fs /\ fs[n] # "absent"
                  THEN pc' = "open" /\ resp' = <<>>
                  ELSE /\ pc' = "done"
                       /\ Len(resp') = 1
                       /\ resp'[1].status = 404
        /\ (pc = "open" /\ pc' = "done")
           => /\ Len(resp') = 1
              /\ IF fs[doc_name] \in {"absent", "dir", "bin"}
                 THEN resp'[1].status = 500
                 ELSE /\ resp'[1].status = 200
                      /\ IF resp'[1].body[3][1] = "markdown"
                         THEN resp'[1].body[3][3] = fs[doc_name]
                         ELSE resp'[1].body[3][2] = fs[doc_name]
        /\ (pc # "idle" /\ pc' # "idle") => last_response' = last_response
      ]_vars

\* a document that was served and then deleted yields 404 on its next request
C17_Witness ==
    /\ pc = "done"
    /\ doc_name = NameA
    /\ last_response[NameA] \in {"t1", "t2"}
    /\ fs[NameA] = "absent"
    /\ opened = <<>>
    /\ Len(resp) = 1
    /\ resp[1].status = 404

\* a document missing at an earlier request, written since, is served with 200
C17_WitnessWritten ==
    /\ pc = "done"
    /\ doc_name = NameB
    /\ last_response[NameB] = "404"
    /\ fs[NameB] = "t1"
    /\ Len(resp) = 1
    /\ resp[1].status = 200
    /\ resp[1].body[3] = <<"<pre>", "t1", "</pre>">>

\* a document served as t1 and rewritten is served as t2
C17_WitnessModified ==
    /\ pc = "done"
    /\ doc_name = NameA
    /\ last_response[NameA] = "t1"
    /\ Len(resp) = 1
    /\ resp[1].status = 200
    /\ resp[1].body[3][3] = "t2"

====
